---- MODULE Spec2Model ----
(***************************************************************************)
(* Interview orchestration and asynchronous transcription pipeline of the  *)
(* ATS voice interview system (src/interview.py), and the retry wrapper of *)
(* the resume pipeline (src/resume_processing.py,                          *)
(* src/uploaded_resume_processing.py).                                     *)
(*                                                                         *)
(* Text is modelled as a sequence of tokens.  A token is a piece of text   *)
(* that the substring tests of the code cannot split: the word "Question", *)
(* the word "Answer", one decimal digit, ":", " ", a line break "NL" and   *)
(* "w", any other word.  Substring search (Python's `in`) is search for a  *)
(* contiguous sub-sequence, str.count is the number of occurrences.        *)
(***************************************************************************)
EXTENDS Integers, Sequences, FiniteSets, TLC

VARIABLES
  store,      \* answers_cleaned/<candidate_id>.txt: candidate id -> file content (tokens)
  written,    \* history: candidate id -> the question indices whose entry was written (line 157)
  hist,       \* history of the sequential drivers: the runs of process_audio_async (and of
              \* the evaluation) made so far
  rb,         \* one run of retry_with_backoff: loop variable, counters, outcome
  jar,        \* the browser's session cookie (Flask's signed cookie session)
  req,        \* the requests in flight: slot -> route, position, session as loaded, locals
  nreq,       \* number of requests made so far
  nsess,      \* history: number of sessions created by login so far
  acceptedBy, \* history: the submit_answer requests that advanced a session, numbered
              \* per session, question index and kind of answer
  queue,      \* work queue of the ThreadPoolExecutor
  worker,     \* the pool threads: position in process_audio_async, task, entry to write
  rows,       \* the interview_results table
  bucket,     \* the blobs of the resumes-all folder
  candidates  \* the table of candidates the screening batches load

storeVars == <<store, written>>
webVars == <<jar, req, nreq, nsess, acceptedBy>>
poolVars == <<queue, worker>>
screenVars == <<bucket, candidates>>
vars == <<store, written, hist, rb, jar, req, nreq, nsess, acceptedBy, queue, worker, rows,
          bucket, candidates>>

-----------------------------------------------------------------------------
(* Bounds of the model *)

\* number of process_audio_async calls the sequential driver makes
MaxCalls == 3

\* candidate ids that own a transcript file
Cands == {101, 102}

\* question indices the sequential driver draws from: 0 and 1 are neighbours,
\* 9 renders as "Question10:", which has "Question1" as a prefix
IdxSample == {0, 1, 9}

\* free text (a generated question, a transcribed answer): an ordinary word, or
\* a sentence that uses the word "Question"
TW == <<"w">>
TQ == <<"Question", " ", "w">>
Texts == {TW, TQ}

-----------------------------------------------------------------------------
(* Text helpers *)

Dig(d) == <<"0", "1", "2", "3", "4", "5", "6", "7", "8", "9">>[d + 1]

\* str(n) of an f-string, n >= 0
RECURSIVE Digits(_)
Digits(n) == IF n < 10 THEN <<Dig(n)>> ELSE Digits(n \div 10) \o <<Dig(n % 10)>>

\* needle in hay (Python `in` on str)
Contains(hay, needle) ==
  \E i \in 1..(Len(hay) - Len(needle) + 1) :
    SubSeq(hay, i, i + Len(needle) - 1) = needle

\* hay.count(needle) for a needle that cannot overlap itself
CountOcc(hay, needle) ==
  Cardinality({i \in 1..(Len(hay) - Len(needle) + 1) :
                 SubSeq(hay, i, i + Len(needle) - 1) = needle})

\* f"Question{transcript_index + 1}:"
Marker(idx) == <<"Question">> \o Digits(idx + 1) \o <<":">>

\* qa_entry of process_audio_async
QAEntry(idx, question, raw) ==
  Marker(idx) \o <<" ">> \o question \o <<"NL">>
    \o <<"Answer">> \o Digits(idx + 1) \o <<":", " ">> \o raw \o <<"NL", "NL">>

\* os.path.exists(path): the file is created by the first write, which is never empty
FileExists(content) == content # <<>>

\* the duplicate check of process_audio_async, on the content it has read
ShouldWriteNoCheck(content, idx) == TRUE
ShouldWrite(content, idx) == ~Contains(content, Marker(idx))

\* content.count("Question") of the Completion Gate
ReadinessCount(content) == CountOcc(content, <<"Question">>)


-----------------------------------------------------------------------------
(* State of the interview application (src/interview.py) *)

\* ThreadPoolExecutor(max_workers=3)
\* the size of the pool
PoolOfFour == 3 + 1
max_workers == 3
\* for _ in range(15)
MaxPolls == 15
\* content.count("Question") >= 10
ReadyCount == 10

\* the request threads: two requests may be in flight at once
Slots == {1, 2}
\* number of requests made in one behaviour
MaxRequests == 4
\* number of questions generate_questions returns
NQ == 1
\* number of tasks still queued when the results request of SpecGate starts
MaxPending == 3

\* the candidate id in the shortlisted_resume table
Shortlisted == {101}

\* a session cookie with no key set
NoSession == [sid |-> 0, info |-> 0, hasQ |-> FALSE, questions |-> <<>>, index |-> 0,
              transcript |-> <<>>]

Processing == <<"[Processing...]">>
Incomplete == <<"Transcription", " ", "incomplete.">>
EvaluationError == <<"Evaluation", " ", "error.">>

NoTask == [cid |-> 0, question |-> <<>>, idx |-> 0, sid |-> 0]
IdleWorker == [pc |-> "idle", task |-> NoTask, entry |-> <<>>]
IdleReq == [kind |-> "none", pc |-> "idle", cid |-> 0, sess |-> NoSession,
            modified |-> FALSE, outcome |-> "none", sawResult |-> FALSE,
            polls |-> 0, sleeps |-> 0, ready |-> FALSE, final |-> <<>>,
            resp |-> "none", respNum |-> FALSE, score |-> 0, summary |-> <<>>,
            inserted |-> FALSE, issued |-> -1]

\* the screening batches: blobs, candidate ids and the rows loaded
Blobs == {1, 2, 3}
NotPdf == {2}
NoResume == 0
ScreenOutcomes == {"YES", "NO", "error"}

base_id == 100
start_id == 100

\* enumerate: the position of blob b in the listing of the blobs B
Position(b, B) == Cardinality({x \in B : x < b})

\* resume_processing.py: the pdf blobs of the folder are collected first and then
\* numbered; app.py passes the names of the files of one upload instead
ResumeId(b, B) == base_id + Position(b, B \ NotPdf)

\* uploaded_resume_processing.py: every blob of the listing is numbered, the ones
\* that are not pdf files are skipped inside the loop
UploadedId(b, B) == start_id + Position(b, B)

\* resume_processing.py: one row for every resume, the ones that failed included
ResumeRows(names, outcome) ==
  { [candidate_id |-> ResumeId(b, names),
     resume |-> IF outcome[b] = "error" THEN NoResume ELSE b,
     shortlisted |-> IF outcome[b] = "YES" THEN "YES" ELSE "NO"] : b \in names \ NotPdf }

\* uploaded_resume_processing.py: the rows of the shortlisted resumes
UploadedRows(outcome) ==
  { [candidate_id |-> UploadedId(b, bucket), resume |-> b, shortlisted |-> "YES"] :
      b \in {x \in bucket \ NotPdf : outcome[x] = "YES"} }

\* no resume uploaded, no batch run
ScreeningIdle ==
  /\ bucket = {}
  /\ candidates = {}

\* resume_processing.py has run once on two resumes: the first was recorded with
\* shortlisted "NO" (candidate 100), the second with "YES" (candidate 101)
FirstBatch == {1, 3}
FirstOutcome == [b \in FirstBatch |-> IF b = 3 THEN "YES" ELSE "NO"]
ScreeningDone ==
  /\ bucket = FirstBatch
  /\ candidates = ResumeRows(FirstBatch, FirstOutcome)

\* nothing of the web application is running
WebIdle ==
  /\ jar = NoSession
  /\ req = [r \in Slots |-> IdleReq]
  /\ nreq = 0
  /\ nsess = 0
  /\ acceptedBy = {}
  /\ queue = <<>>
  /\ worker = [w \in 1..max_workers |-> IdleWorker]
  /\ rows = <<>>
  /\ ScreeningDone

-----------------------------------------------------------------------------
(* Sequential driver: process_audio_async calls run one after the other,   *)
(* each to completion.                                                     *)

\* retry_with_backoff not running
RbIdle == [impl |-> "none", attempt |-> 0, calls |-> 0, sleeps |-> 0, waits |-> <<>>,
           log |-> <<>>, status |-> "idle", err |-> <<>>]

InitStore ==
  /\ store = [c \in Cands |-> <<>>]
  /\ written = [c \in Cands |-> <<>>]
  /\ hist = <<>>
  /\ rb = RbIdle
  /\ WebIdle

\* one complete run of process_audio_async (lines 141-160) with a successful transcription
ProcessAudioSeq(c, idx, question, raw) ==
  /\ Len(hist) < MaxCalls
  /\ LET content == store[c]
         wr == ShouldWrite(content, idx)
     IN /\ store' = [store EXCEPT ![c] =
                       IF wr THEN content \o QAEntry(idx, question, raw) ELSE content]
        /\ written' = [written EXCEPT ![c] = IF wr THEN Append(@, idx) ELSE @]
        /\ hist' = Append(hist, [cid |-> c, idx |-> idx, question |-> question,
                                 raw |-> raw, wrote |-> wr])
        /\ UNCHANGED <<rb, webVars, poolVars, rows, screenVars>>

NextStore ==
  \E c \in Cands, idx \in IdxSample, question \in Texts, raw \in Texts :
    ProcessAudioSeq(c, idx, question, raw)

SpecStore == InitStore /\ [][NextStore]_vars

-----------------------------------------------------------------------------
(* Claims on the sequential driver *)

\* number of entries written for index idx of candidate c
EntriesFor(c, idx) == Cardinality({k \in 1..Len(written[c]) : written[c][k] = idx})

\* the calls so far for (c, idx), as positions of hist
CallsFor(c, idx) == {k \in 1..Len(hist) : hist[k].cid = c /\ hist[k].idx = idx}

\* C1: Idempotent append.  Once process_audio_async has run for (candidate, index),
\* the file holds exactly one entry for that index (one write was made, the marker
\* occurs once), every later run for the same index is skipped, whether it carries
\* the same text or another, and the stored entry is the first writer's.
C1_IdempotentAppend ==
  \A c \in Cands, idx \in IdxSample :
    CallsFor(c, idx) # {} =>
      LET first == CHOOSE k \in CallsFor(c, idx) : \A j \in CallsFor(c, idx) : k <= j
      IN /\ EntriesFor(c, idx) = 1
         /\ CountOcc(store[c], Marker(idx)) = 1
         /\ hist[first].wrote
         /\ \A j \in CallsFor(c, idx) : j > first => ~hist[j].wrote
         /\ Contains(store[c], QAEntry(idx, hist[first].question, hist[first].raw))

\* the same (candidate, index, text) was appended twice, and the same index once
\* more with another text
C1_Witness ==
  \E c \in Cands, idx \in IdxSample :
    \E i, j, k \in CallsFor(c, idx) :
      /\ i < j /\ j < k
      /\ hist[i].raw = hist[j].raw /\ hist[i].question = hist[j].question
      /\ hist[k].raw # hist[i].raw

\* the distinct indices appended for candidate c
DistinctAppended(c) == {hist[k].idx : k \in {j \in 1..Len(hist) : hist[j].cid = c}}

\* C7: Out-of-order tolerance.  The readiness count of the Completion Gate equals
\* the number of distinct indices appended, whatever the order of the appends.
C7_ReadinessCountsDistinct ==
  \A c \in Cands : ReadinessCount(store[c]) = Cardinality(DistinctAppended(c))

-----------------------------------------------------------------------------
(* The Flask routes.  A request loads the session from the cookie the browser *)
(* sends (Open), runs its handler on that copy, and the browser stores the    *)
(* cookie of the response when the session was modified (Respond).            *)

Kinds == {"login", "submit_audio", "submit_text", "results"}

\* candidate ids typed into the login form
LoginIds == {101}

\* generate_questions: the call or json.loads raises, or the list the model returned
\* is handed back as it is
Questions == [i \in 1..NQ |-> TW]
GenRaises == [raised |-> TRUE, list |-> <<>>]
GenReturns(list) == [raised |-> FALSE, list |-> list]
GenOutcomes == {GenRaises, GenReturns(Questions)}

\* transcriptions the worker may obtain, answers typed as text
RawTexts == {TW, TQ}
AnswerTexts == {TW}

\* replies of the scoring model
ScoreResponses ==
  { [kind |-> "throw", avgNum |-> FALSE, avg |-> 0, summary |-> <<>>],
    [kind |-> "garbage", avgNum |-> FALSE, avg |-> 0, summary |-> <<>>],
    [kind |-> "nokeys", avgNum |-> FALSE, avg |-> 0, summary |-> <<>>],
    [kind |-> "json", avgNum |-> FALSE, avg |-> 0, summary |-> TW],
    [kind |-> "json", avgNum |-> TRUE, avg |-> 65, summary |-> TW] }

FirstPc(kind) ==
  CASE kind = "login" -> "check"
    [] kind = "results" -> "start"
    [] kind = "interview" -> "question"
    [] kind = "processing" -> "page"
    [] OTHER -> "handle"

IdleSlots == {r \in Slots : req[r].pc = "idle"}

\* a request arrives and Flask opens its session from the cookie
Open(kind, cid) ==
  /\ nreq < MaxRequests
  /\ IdleSlots # {}
  /\ LET r == CHOOSE x \in IdleSlots : \A y \in IdleSlots : x <= y
     IN req' = [req EXCEPT ![r] = [IdleReq EXCEPT !.kind = kind, !.pc = FirstPc(kind),
                                                   !.sess = jar,
                                                   !.cid = IF kind = "login" THEN cid ELSE 0]]
  /\ nreq' = nreq + 1
  /\ UNCHANGED <<jar, nsess, acceptedBy, storeVars, hist, rb, poolVars, rows, screenVars>>

HasResult(cid) == \E i \in 1..Len(rows) : rows[i].cid = cid

\* a prior-result check that reports a result when its query raises
CheckDuplicateFailsClosed(cid, queryOk) == IF queryOk THEN HasResult(cid) ELSE TRUE

\* a prior-result check that never finds a row
CheckDuplicateNever(cid, queryOk) == FALSE

\* check_duplicate_interview: the query raises (queryOk = FALSE) or returns its rows
CheckDuplicate(cid, queryOk) == IF queryOk THEN HasResult(cid) ELSE FALSE

\* the rows the query of authenticate_candidate returns, lines 37-41
CandidateRows(cid) == {x \in candidates : x.candidate_id = cid}

\* authenticate_candidate: the candidate id of the row found, 0 for None
Authenticate(cid, queryOk) == IF queryOk /\ CandidateRows(cid) # {} THEN cid ELSE 0

\* a candidate id that int() does not accept (letters, an empty field)
NotNumeric == -1

\* int(candidate_id), line 74: evaluated before the try block of check_duplicate_interview
IntParses(cid) == cid # NotNumeric

\* login, lines 208-210
LoginCheck(r, queryOk) ==
  /\ req[r].pc = "check"
  /\ req' = [req EXCEPT ![r] =
       IF ~IntParses(req[r].cid)
       THEN \* ValueError, raised outside every try block
            [@ EXCEPT !.pc = "respond", !.outcome = "error500"]
       ELSE IF CheckDuplicate(req[r].cid, queryOk)
       THEN [@ EXCEPT !.pc = "respond", !.outcome = "AlreadyInterviewed",
                      !.sawResult = HasResult(req[r].cid)]
       ELSE [@ EXCEPT !.pc = "create", !.sawResult = HasResult(req[r].cid)]]
  /\ UNCHANGED <<jar, nreq, nsess, acceptedBy, storeVars, hist, rb, poolVars, rows, screenVars>>

\* login, lines 212-221
LoginCreate(r, queryOk, gen) ==
  /\ req[r].pc = "create"
  /\ LET info == Authenticate(req[r].cid, queryOk)
     IN IF info = 0
        THEN /\ req' = [req EXCEPT ![r].pc = "respond", ![r].outcome = "NotFound"]
             /\ UNCHANGED nsess
        ELSE IF gen.raised
        THEN \* candidate_info is set, generate_questions raises
             /\ req' = [req EXCEPT ![r].pc = "respond", ![r].outcome = "error500",
                                   ![r].modified = TRUE, ![r].sess.info = info]
             /\ UNCHANGED nsess
        ELSE /\ req' = [req EXCEPT ![r].pc = "respond", ![r].outcome = "Session",
                                   ![r].modified = TRUE,
                                   ![r].sess = [sid |-> nsess + 1, info |-> info,
                                                hasQ |-> TRUE, questions |-> gen.list,
                                                index |-> 0, transcript |-> <<>>]]
             /\ nsess' = nsess + 1
  /\ UNCHANGED <<jar, nreq, acceptedBy, storeVars, hist, rb, poolVars, rows, screenVars>>

\* session["index"] += 1
AdvanceStuck(index) == index
Advance(index) == index + 1

\* history: the number of requests that advanced session sid past question idx
Accepted(sid, idx, audio) ==
  Cardinality({a \in acceptedBy : a.sid = sid /\ a.idx = idx /\ a.audio = audio})

\* session["questions"][idx], lines 272 and 292
QuestionFirst(questions, idx) == questions[1]
QuestionAt(questions, idx) == questions[idx + 1]

\* executor.submit of line 284, which only the audio branch reaches
HandoffAlways(q, audio, task) == Append(q, task)
Handoff(q, audio, task) == IF audio THEN Append(q, task) ELSE q

\* submit_answer: the audio branch (lines 261-285) and the text branch (lines 288-298)
SubmitAnswer(r, answer) ==
  /\ req[r].pc = "handle"
  /\ LET s == req[r].sess
         audio == req[r].kind = "submit_audio"
     IN IF ~s.hasQ \/ s.index >= Len(s.questions)
        THEN \* session["index"] is missing (KeyError) or questions[idx] is out of range (IndexError)
             /\ req' = [req EXCEPT ![r].pc = "respond", ![r].outcome = "error500"]
             /\ UNCHANGED <<acceptedBy, queue>>
        ELSE LET idx == s.index
                 question == QuestionAt(s.questions, idx)
                 pair == [question |-> question,
                          answer |-> IF audio THEN Processing ELSE answer]
             IN /\ req' = [req EXCEPT ![r].pc = "respond", ![r].outcome = "next",
                                      ![r].modified = TRUE,
                                      ![r].sess.transcript = Append(@, pair),
                                      ![r].sess.index = Advance(@)]
                /\ acceptedBy' = acceptedBy \cup
                      {[sid |-> s.sid, idx |-> idx, audio |-> audio,
                        k |-> Accepted(s.sid, idx, audio) + 1]}
                /\ queue' = Handoff(queue, audio, [cid |-> s.info, question |-> question,
                                                   idx |-> idx, sid |-> s.sid])
  /\ UNCHANGED <<jar, nreq, nsess, storeVars, hist, rb, worker, rows, screenVars>>

\* results, lines 305-312
ResultsStart(r) ==
  /\ req[r].pc = "start"
  /\ LET s == req[r].sess
     IN req' = [req EXCEPT ![r] =
          IF s.info = 0 \/ s.transcript = <<>>
          THEN [@ EXCEPT !.pc = "respond", !.outcome = "redirect"]
          ELSE [@ EXCEPT !.pc = "poll", !.cid = s.info]]
  /\ UNCHANGED <<jar, nreq, nsess, acceptedBy, storeVars, hist, rb, poolVars, rows, screenVars>>

\* the test of the Completion Gate, lines 316-320
GateReadyNever(content) == FALSE
GateReady(content) == FileExists(content) /\ ReadinessCount(content) >= ReadyCount

\* the loop bound of the Completion Gate, line 315
GateLoopUnbounded(polls) == TRUE
GateLoop(polls) == polls < MaxPolls

\* results, one iteration of the loop of lines 315-322: the test, then break or sleep
GatePoll(r) ==
  /\ req[r].pc = "poll"
  /\ req' = [req EXCEPT ![r] =
       IF GateReady(store[@.cid])
       THEN \* break
            [@ EXCEPT !.polls = @ + 1, !.ready = TRUE, !.pc = "read"]
       ELSE \* time.sleep(1), then the next iteration if there is one
            [@ EXCEPT !.polls = @ + 1, !.sleeps = @ + 1,
                      !.pc = IF GateLoop(req[r].polls + 1) THEN "poll" ELSE "read"]]
  /\ UNCHANGED <<jar, nreq, nsess, acceptedBy, storeVars, hist, rb, poolVars, rows, screenVars>>

\* final_text, lines 325-329
FinalTextNoFallback(content) == content
FinalText(content) == IF FileExists(content) THEN content ELSE Incomplete

\* results, lines 325-329
ReadFinal(r) ==
  /\ req[r].pc = "read"
  /\ LET content == store[req[r].cid]
     IN req' = [req EXCEPT ![r].pc = "evaluate", ![r].final = FinalText(content)]
  /\ UNCHANGED <<jar, nreq, nsess, acceptedBy, storeVars, hist, rb, poolVars, rows, screenVars>>

\* evaluate_answers_with_gemini: raises, or returns the average and the summary of the reply
EvaluateAnswers(resp) ==
  IF resp.kind # "json"
  THEN [raised |-> TRUE, avgNum |-> FALSE, avg |-> 0, summary |-> <<>>]
  ELSE [raised |-> FALSE, avgNum |-> resp.avgNum, avg |-> resp.avg, summary |-> resp.summary]

\* results, lines 332-345: the try block around the evaluation; scores in tenths
EvalOutcomeNoCatch(resp) ==
  LET ev == EvaluateAnswers(resp)
  IN [raised |-> ev.raised \/ ~ev.avgNum, degraded |-> FALSE,
      score |-> ev.avg, summary |-> ev.summary]
EvalOutcome(resp) ==
  LET ev == EvaluateAnswers(resp)
  IN IF ev.raised \/ ~ev.avgNum
     THEN [raised |-> FALSE, degraded |-> TRUE, score |-> 0, summary |-> EvaluationError]
     ELSE [raised |-> FALSE, degraded |-> FALSE, score |-> ev.avg, summary |-> ev.summary]

Evaluate(r, resp) ==
  /\ req[r].pc = "evaluate"
  /\ LET out == EvalOutcome(resp)
     IN req' = [req EXCEPT ![r] =
          IF out.raised
          THEN [@ EXCEPT !.pc = "respond", !.outcome = "error500",
                         !.resp = resp.kind, !.respNum = resp.avgNum]
          ELSE [@ EXCEPT !.pc = "insert", !.resp = resp.kind, !.respNum = resp.avgNum,
                         !.score = out.score, !.summary = out.summary]]
  /\ UNCHANGED <<jar, nreq, nsess, acceptedBy, storeVars, hist, rb, poolVars, rows, screenVars>>

\* results, lines 348-366: insert_rows_json succeeds, or reports errors or raises
Insert(r, insertOk) ==
  /\ req[r].pc = "insert"
  /\ rows' = IF insertOk
             THEN Append(rows, [cid |-> req[r].cid, full_transcript |-> req[r].final,
                                final_score |-> req[r].score,
                                summarised_feedback |-> req[r].summary])
             ELSE rows
  /\ req' = [req EXCEPT ![r].pc = "respond", ![r].outcome = "result",
                        ![r].inserted = insertOk]
  /\ UNCHANGED <<jar, nreq, nsess, acceptedBy, storeVars, hist, rb, poolVars, screenVars>>

\* the response reaches the browser; Flask sets the cookie when the session was modified
Respond(r) ==
  /\ req[r].pc = "respond"
  /\ jar' = IF req[r].modified THEN req[r].sess ELSE jar
  /\ req' = [req EXCEPT ![r] = IdleReq]
  /\ UNCHANGED <<nreq, nsess, acceptedBy, storeVars, hist, rb, poolVars, rows, screenVars>>

-----------------------------------------------------------------------------
(* The worker pool: process_audio_async on a pool thread *)

IdleWorkers == {w \in 1..max_workers : worker[w].pc = "idle"}

\* an idle pool thread takes the oldest task of the queue
WorkerTake(w) ==
  /\ queue # <<>>
  /\ IdleWorkers # {}
  /\ w = CHOOSE x \in IdleWorkers : \A y \in IdleWorkers : x <= y
  /\ worker' = [worker EXCEPT ![w] = [pc |-> "run", task |-> Head(queue), entry |-> <<>>]]
  /\ queue' = Tail(queue)
  /\ UNCHANGED <<webVars, storeVars, hist, rb, rows, screenVars>>

\* a failed task is handed to the pool again
WorkerFailsRequeue(w) ==
  /\ worker[w].pc \in {"run", "write"}
  /\ worker' = [worker EXCEPT ![w] = IdleWorker]
  /\ queue' = Append(queue, worker[w].task)
  /\ UNCHANGED <<webVars, storeVars, hist, rb, rows, screenVars>>

\* lines 129-137 raise (the audio cannot be read, the transcription fails) or the
\* file cannot be opened for the append of line 156: the except clause of line 162
\* ends the task
WorkerFails(w) ==
  /\ worker[w].pc \in {"run", "write"}
  /\ worker' = [worker EXCEPT ![w] = IdleWorker]
  /\ UNCHANGED <<queue, webVars, storeVars, hist, rb, rows, screenVars>>

\* lines 129-155: the transcription returns raw, the file is read and the marker tested
WorkerCheck(w, raw) ==
  /\ worker[w].pc = "run"
  /\ LET t == worker[w].task
     IN worker' = [worker EXCEPT ![w] =
          IF ShouldWrite(store[t.cid], t.idx)
          THEN [@ EXCEPT !.pc = "write", !.entry = QAEntry(t.idx, t.question, raw)]
          ELSE IdleWorker]
  /\ UNCHANGED <<queue, webVars, storeVars, hist, rb, rows, screenVars>>

\* lines 156-158: the entry is appended to the file
WorkerWrite(w) ==
  /\ worker[w].pc = "write"
  /\ LET t == worker[w].task
     IN /\ store' = [store EXCEPT ![t.cid] = @ \o worker[w].entry]
        /\ written' = [written EXCEPT ![t.cid] = Append(@, t.idx)]
  /\ worker' = [worker EXCEPT ![w] = IdleWorker]
  /\ UNCHANGED <<queue, webVars, hist, rb, rows, screenVars>>

Init ==
  /\ store = [c \in Cands |-> <<>>]
  /\ written = [c \in Cands |-> <<>>]
  /\ hist = <<>>
  /\ rb = RbIdle
  /\ WebIdle

Next ==
  \/ \E kind \in Kinds, cid \in LoginIds : Open(kind, cid)
  \/ \E r \in Slots, queryOk \in BOOLEAN : LoginCheck(r, queryOk)
  \/ \E r \in Slots, queryOk \in BOOLEAN, gen \in GenOutcomes : LoginCreate(r, queryOk, gen)
  \/ \E r \in Slots, answer \in AnswerTexts : SubmitAnswer(r, answer)
  \/ \E r \in Slots : ResultsStart(r)
  \/ \E r \in Slots : GatePoll(r)
  \/ \E r \in Slots : ReadFinal(r)
  \/ \E r \in Slots, resp \in ScoreResponses : Evaluate(r, resp)
  \/ \E r \in Slots, insertOk \in BOOLEAN : Insert(r, insertOk)
  \/ \E r \in Slots : Respond(r)
  \/ \E w \in 1..max_workers : WorkerTake(w)
  \/ \E w \in 1..max_workers : WorkerFails(w)
  \/ \E w \in 1..max_workers, raw \in RawTexts : WorkerCheck(w, raw)
  \/ \E w \in 1..max_workers : WorkerWrite(w)

Spec == Init /\ [][Next]_vars

-----------------------------------------------------------------------------
(* The Completion Gate with a store that can become ready: a session of ten *)
(* questions, all answered by audio.  The tasks of the first k questions    *)
(* have been written, in order; up to MaxPending of the next ones are still *)
(* queued, the rest have failed.  The results request has just started.     *)

Questions10 == [i \in 1..ReadyCount |-> TW]

RECURSIVE Prefix(_)
Prefix(k) == IF k = 0 THEN <<>> ELSE Prefix(k - 1) \o QAEntry(k - 1, TW, TW)

Session10 ==
  [sid |-> 1, info |-> 101, hasQ |-> TRUE, questions |-> Questions10,
   index |-> ReadyCount,
   transcript |-> [i \in 1..ReadyCount |-> [question |-> TW, answer |-> Processing]]]

InitGate ==
  /\ hist = <<>>
  /\ rb = RbIdle
  /\ jar = Session10
  /\ nreq = MaxRequests
  /\ nsess = 1
  /\ acceptedBy = {[sid |-> 1, idx |-> i, audio |-> TRUE, k |-> 1] : i \in 0..(ReadyCount - 1)}
  /\ worker = [w \in 1..max_workers |-> IdleWorker]
  /\ rows = <<>>
  /\ ScreeningDone
  /\ req = [r \in Slots |->
              IF r = 1
              THEN [IdleReq EXCEPT !.kind = "results", !.pc = "start", !.sess = Session10]
              ELSE IdleReq]
  /\ \E k \in 0..ReadyCount, n \in 0..MaxPending :
       /\ k + n <= ReadyCount
       /\ store = [c \in Cands |-> IF c = 101 THEN Prefix(k) ELSE <<>>]
       /\ written = [c \in Cands |-> IF c = 101 THEN [i \in 1..k |-> i - 1] ELSE <<>>]
       /\ queue = [i \in 1..n |-> [cid |-> 101, question |-> TW, idx |-> k + i - 1,
                                   sid |-> 1]]

NextGate ==
  \/ \E r \in Slots : ResultsStart(r)
  \/ \E r \in Slots : GatePoll(r)
  \/ \E r \in Slots : ReadFinal(r)
  \/ \E r \in Slots, resp \in ScoreResponses : Evaluate(r, resp)
  \/ \E r \in Slots, insertOk \in BOOLEAN : Insert(r, insertOk)
  \/ \E r \in Slots : Respond(r)
  \/ \E w \in 1..max_workers : WorkerTake(w)
  \/ \E w \in 1..max_workers : WorkerFails(w)
  \/ \E w \in 1..max_workers : WorkerCheck(w, TW)
  \/ \E w \in 1..max_workers : WorkerWrite(w)

SpecGate == InitGate /\ [][NextGate]_vars

-----------------------------------------------------------------------------
(* Claims on the interview application *)

PoolQuiet == queue = <<>> /\ \A w \in 1..max_workers : worker[w].pc = "idle"

\* C2: Atomic check-then-write.  When all workers have finished, the store holds
\* exactly one entry for each question index a worker appended: no index of a
\* candidate is stored twice.
C2_NoIndexStoredTwice ==
  PoolQuiet => \A c \in Cands : \A idx \in 0..(ReadyCount - 1) : EntriesFor(c, idx) <= 1

SubmitKinds == {"submit_audio", "submit_text"}

\* C3: Two submissions for the same question are never both accepted.  For every
\* session and question index, at most one submit_answer request advances the
\* session past that index and at most one task is enqueued for it.
C3_OneAcceptedPerQuestion ==
  \A a \in acceptedBy : a.k = 1 /\ Accepted(a.sid, a.idx, ~a.audio) = 0

RowsFor(cid) == Cardinality({i \in 1..Len(rows) : rows[i].cid = cid})

\* C4: Exactly-once result persistence.  At most one row is ever inserted into the
\* results table for a candidate id.
C4_AtMostOneRow ==
  \A cid \in Shortlisted : RowsFor(cid) <= 1

\* C5: At-most-one evaluation at start.  A login made when a result row exists for
\* the id is rejected as AlreadyInterviewed, with no session created and no
\* question generated, and no second row is persisted for the id.
C5_RejectedWhenResultExists ==
  /\ \A r \in Slots :
       (req[r].kind = "login" /\ req[r].sawResult) =>
          /\ req[r].pc = "respond"
          /\ req[r].outcome = "AlreadyInterviewed"
          /\ ~req[r].modified
  /\ \A cid \in Shortlisted : RowsFor(cid) <= 1

\* the sessions in the cookie and in the requests in flight
LiveSessions == {jar} \cup {req[r].sess : r \in Slots}

\* the handler of submit_answer runs in request r
SubmitStep(r) ==
  /\ req[r].kind \in SubmitKinds
  /\ req[r].pc = "handle"
  /\ req'[r].pc = "respond"

\* C6 as stated: every submit_answer call increases currentIndex by exactly 1 and
\* currentIndex never exceeds len(questions), calls after the last question included.
C6_EveryCallAdvances ==
  [][\A r \in Slots :
       (SubmitStep(r) /\ req[r].sess.hasQ) =>
         /\ req'[r].sess.index = req[r].sess.index + 1
         /\ req'[r].sess.index <= Len(req'[r].sess.questions)]_vars

\* C6, amended: a submit_answer call on a session with currentIndex < len(questions)
\* increases currentIndex by exactly 1 and appends one transcript pair; a call on a
\* session whose questions are exhausted (or that has none) fails and leaves the
\* session as it was; currentIndex never exceeds len(questions).
C6_MonotonicAdvance ==
  /\ [](\A s \in LiveSessions : s.index >= 0 /\ s.index <= Len(s.questions))
  /\ [][\A r \in Slots :
          SubmitStep(r) =>
            IF req[r].sess.hasQ /\ req[r].sess.index < Len(req[r].sess.questions)
            THEN /\ req'[r].sess.index = req[r].sess.index + 1
                 /\ Len(req'[r].sess.transcript) = Len(req[r].sess.transcript) + 1
                 /\ req'[r].outcome = "next"
            ELSE /\ req'[r].sess = req[r].sess
                 /\ req'[r].outcome = "error500"
                 /\ ~req'[r].modified]_vars

\* a submit_answer call was made after the last question had been answered, and failed
C6_Witness ==
  \E r \in Slots :
    /\ req[r].kind \in SubmitKinds /\ req[r].pc = "respond"
    /\ req[r].sess.hasQ /\ req[r].sess.index = Len(req[r].sess.questions)
    /\ req[r].outcome = "error500"

\* the Completion Gate of request r is over
GateOver(r) == req[r].kind = "results" /\ req[r].pc \in {"read", "evaluate", "insert"}

\* C8: Bounded wait.  The gate makes at most 15 polls; while it waits every poll was
\* followed by one sleep; when the store never got ready it stops after 15 polls and
\* 15 sleeps and goes on to the evaluation; when the store is ready at poll k it
\* stops after poll k, with k - 1 sleeps.
C8_BoundedWait ==
  \A r \in Slots :
    /\ req[r].polls <= MaxPolls
    /\ req[r].pc = "poll" =>
         /\ req[r].polls < MaxPolls /\ req[r].sleeps = req[r].polls /\ ~req[r].ready
    /\ GateOver(r) =>
         IF req[r].ready
         THEN /\ req[r].polls >= 1 /\ req[r].sleeps = req[r].polls - 1
              /\ ReadinessCount(store[req[r].cid]) >= ReadyCount
         ELSE /\ req[r].polls = MaxPolls /\ req[r].sleeps = MaxPolls

\* the gate timed out after 15 polls and the evaluation is about to run
C8_Witness ==
  \E r \in Slots :
    /\ req[r].kind = "results" /\ req[r].pc = "evaluate"
    /\ ~req[r].ready /\ req[r].polls = MaxPolls /\ req[r].sleeps = MaxPolls

\* the scoring backend threw, or its reply did not parse into the expected shape
ScoringFailed(r) == req[r].resp # "none" /\ (req[r].resp # "json" \/ ~req[r].respNum)

\* C9: Graceful degraded evaluation.  When the scoring backend throws or its reply
\* cannot be parsed, the results request does not fail: it goes on with score 0.0
\* and the non-empty summary "Evaluation error.", and the row it inserts carries them.
C9_DegradedEvaluation ==
  \A r \in Slots :
    /\ req[r].kind = "results" => req[r].outcome # "error500"
    /\ ScoringFailed(r) =>
         /\ req[r].pc \in {"insert", "respond"}
         /\ req[r].score = 0
         /\ req[r].summary = EvaluationError /\ req[r].summary # <<>>
         /\ (req[r].pc = "respond" /\ req[r].inserted) =>
               \E i \in 1..Len(rows) :
                 rows[i] = [cid |-> req[r].cid, full_transcript |-> req[r].final,
                            final_score |-> 0, summarised_feedback |-> EvaluationError]

\* a degraded result was inserted into the results table
C9_Witness ==
  \E r \in Slots :
    /\ ScoringFailed(r) /\ req[r].resp = "throw" /\ req[r].pc = "respond" /\ req[r].inserted
    /\ \E i \in 1..Len(rows) :
         rows[i].final_score = 0 /\ rows[i].summarised_feedback = EvaluationError

-----------------------------------------------------------------------------
(* retry_with_backoff (resume_processing.py and uploaded_resume_processing.py). *)
(* An error message is a sequence of characters.                               *)

max_retries == 5
base_delay == 2

M_RateLimit == <<"r", "a", "t", "e", " ", "l", "i", "m", "i", "t", " ", "e", "x", "c", "e", "e", "d", "e", "d">>
M_Invalid == <<"i", "n", "v", "a", "l", "i", "d", " ", "a", "r", "g", "u", "m", "e", "n", "t">>
M_Quota == <<"Q", "u", "o", "t", "a", " ", "e", "x", "c", "e", "e", "d", "e", "d">>
M_Exhaust == <<"e", "x", "h", "a", "u", "s", "t", "e", "d">>
\* the messages of the exception raised after the loop ("!" for the emoji, "-" for the dash)
M_MaxRetries == <<"M", "a", "x", " ", "r", "e", "t", "r", "i", "e", "s", " ", "r", "e", "a", "c", "h", "e", "d">>
M_MaxRetriesUploaded == <<"!", " ">> \o M_MaxRetries \o <<" ", "-", " ", "s", "t", "i", "l", "l", " ", "f", "a", "i", "l", "i", "n", "g", ".">>

\* the messages the wrapped operation may fail with
Messages == {M_RateLimit, M_Invalid, M_Quota, M_Exhaust}

K_resource == <<"r", "e", "s", "o", "u", "r", "c", "e">>
K_quota == <<"q", "u", "o", "t", "a">>
K_rate == <<"r", "a", "t", "e">>
K_limit == <<"l", "i", "m", "i", "t">>
K_exhaust == <<"e", "x", "h", "a", "u", "s", "t">>

UpperAZ == <<"A", "B", "C", "D", "E", "F", "G", "H", "I", "J", "K", "L", "M",
             "N", "O", "P", "Q", "R", "S", "T", "U", "V", "W", "X", "Y", "Z">>
LowerAZ == <<"a", "b", "c", "d", "e", "f", "g", "h", "i", "j", "k", "l", "m",
             "n", "o", "p", "q", "r", "s", "t", "u", "v", "w", "x", "y", "z">>

\* str.lower()
Lower(msg) ==
  [k \in 1..Len(msg) |->
     IF \E i \in 1..26 : UpperAZ[i] = msg[k]
     THEN LowerAZ[CHOOSE i \in 1..26 : UpperAZ[i] = msg[k]]
     ELSE msg[k]]

\* resume_processing.py line 58
TransientAlways(msg) == TRUE
TransientResume(msg) ==
  LET txt == Lower(msg)
  IN \E key \in {K_resource, K_quota, K_rate, K_limit} : Contains(txt, key)

\* uploaded_resume_processing.py lines 27-31
TransientUploaded(msg) ==
  LET error_message == Lower(msg)
  IN \/ Contains(error_message, K_resource)
     \/ Contains(error_message, K_quota)
     \/ Contains(error_message, K_exhaust)
     \/ Contains(error_message, K_rate)
     \/ Contains(error_message, K_limit)

Impls == {"resume_processing", "uploaded_resume_processing"}

IsTransient(impl, msg) ==
  IF impl = "resume_processing" THEN TransientResume(msg) ELSE TransientUploaded(msg)

\* the failure raised after the loop
ExhaustedAsCause(impl) == M_RateLimit
ExhaustedMessage(impl) ==
  IF impl = "resume_processing" THEN M_MaxRetries ELSE M_MaxRetriesUploaded

InitRetry ==
  /\ store = [c \in Cands |-> <<>>]
  /\ written = [c \in Cands |-> <<>>]
  /\ hist = <<>>
  /\ WebIdle
  /\ \E impl \in Impls :
       rb = [impl |-> impl, attempt |-> 1, calls |-> 0, sleeps |-> 0, waits |-> <<>>,
             log |-> <<>>, status |-> "running", err |-> <<>>]

\* one iteration of the for loop whose func() returns
RetryCallReturns ==
  /\ rb.status = "running"
  /\ rb.attempt <= max_retries
  /\ rb' = [rb EXCEPT !.calls = @ + 1, !.log = Append(@, <<"o", "k">>),
                      !.status = "returned"]
  /\ UNCHANGED <<store, written, hist, webVars, poolVars, rows, screenVars>>

\* one iteration of the for loop whose func() raises e, str(e) = msg
RetryCallRaises(msg) ==
  /\ rb.status = "running"
  /\ rb.attempt <= max_retries
  /\ IF IsTransient(rb.impl, msg)
     THEN \* wait = base_delay * attempt + random.uniform(0, 1); time.sleep(wait); continue
          rb' = [rb EXCEPT !.calls = @ + 1, !.log = Append(@, msg),
                           !.sleeps = @ + 1,
                           !.waits = Append(@, base_delay * rb.attempt),
                           !.attempt = @ + 1]
     ELSE \* raise
          rb' = [rb EXCEPT !.calls = @ + 1, !.log = Append(@, msg),
                           !.status = "raised", !.err = msg]
  /\ UNCHANGED <<store, written, hist, webVars, poolVars, rows, screenVars>>

\* the loop is over: raise Exception("Max retries reached")
RetryExhausted ==
  /\ rb.status = "running"
  /\ rb.attempt > max_retries
  /\ rb' = [rb EXCEPT !.status = "raised", !.err = ExhaustedMessage(rb.impl)]
  /\ UNCHANGED <<store, written, hist, webVars, poolVars, rows, screenVars>>

NextRetry ==
  \/ RetryCallReturns
  \/ \E msg \in Messages : RetryCallRaises(msg)
  \/ RetryExhausted

SpecRetry == InitRetry /\ [][NextRetry]_vars

Ok == <<"o", "k">>

\* C10: Retry classification.  The operation is invoked again only after a failure
\* classified transient, at most 5 times in all; every earlier invocation was
\* followed by one sleep; "rate limit exceeded" is retried and "invalid argument"
\* is not: it ends the run at the invocation that raised it, the error propagated,
\* with no sleep after it; a success at attempt k returns after exactly k
\* invocations.
C10_RetryClassification ==
  /\ rb.calls <= max_retries
  /\ rb.calls = Len(rb.log)
  /\ \A k \in 1..(rb.calls - 1) :
       /\ rb.log[k] # Ok /\ rb.log[k] # M_Invalid
       /\ IsTransient(rb.impl, rb.log[k])
  /\ \A k \in 1..rb.calls :
       /\ rb.log[k] = M_Invalid =>
            /\ k = rb.calls /\ rb.status = "raised" /\ rb.err = M_Invalid
            /\ rb.sleeps = k - 1
       /\ rb.log[k] = Ok =>
            /\ k = rb.calls /\ rb.status = "returned" /\ rb.sleeps = k - 1
       /\ (rb.log[k] = M_RateLimit /\ k = rb.calls) =>
            /\ rb.attempt = k + 1 /\ rb.sleeps = k
            /\ \/ rb.status = "running"
               \/ k = max_retries /\ rb.status = "raised"
                    /\ rb.err = ExhaustedMessage(rb.impl)
  /\ (rb.status = "raised" /\ rb.calls = 1 /\ rb.log[1] = M_Invalid) => rb.sleeps = 0
  /\ rb.status = "returned" => rb.log[rb.calls] = Ok

\* a non-transient failure ended a run at its first invocation, or a run returned
\* at its third attempt after two transient failures, or five attempts were made
C10_Witness ==
  \/ rb.status = "raised" /\ rb.calls = 1 /\ rb.err = M_Invalid
  \/ rb.status = "returned" /\ rb.calls = 3 /\ rb.log[1] = M_RateLimit
  \/ rb.status = "raised" /\ rb.calls = max_retries /\ rb.err = ExhaustedMessage(rb.impl)

\* the failures raised when the attempts are used up, in either implementation
ExhaustedMessages == {ExhaustedMessage(i) : i \in Impls}

\* all five invocations failed with an error classified transient, and the run is over
AllAttemptsTransient ==
  /\ rb.status = "raised" /\ rb.calls = max_retries
  /\ \A k \in 1..rb.calls : rb.log[k] # Ok /\ IsTransient(rb.impl, rb.log[k])

\* C11: Retries exhausted is a distinct failure.  When all 5 attempts failed with
\* transient errors the failure raised is the exhaustion failure: it differs from
\* every transient cause of the run and from every fatal backend error, neither
\* retry_with_backoff classifies it transient, and it is raised in no other case.
C11_ExhaustedDistinct ==
  /\ AllAttemptsTransient =>
       /\ rb.err = ExhaustedMessage(rb.impl)
       /\ \A k \in 1..rb.calls : rb.err # rb.log[k]
       /\ \A m \in Messages : rb.err # m
       /\ \A j \in Impls : ~IsTransient(j, rb.err)
  /\ (rb.status = "raised" /\ rb.err \in ExhaustedMessages) => AllAttemptsTransient
  /\ (rb.status = "raised" /\ ~AllAttemptsTransient) =>
       /\ rb.err = rb.log[rb.calls]
       /\ ~IsTransient(rb.impl, rb.err)

\* five transient failures, the last one a quota error, ended in the exhaustion failure
C11_Witness ==
  /\ AllAttemptsTransient
  /\ rb.log[max_retries] = M_Quota
  /\ rb.err = ExhaustedMessage(rb.impl)

-----------------------------------------------------------------------------
(* The interview end to end: a session of ten questions answered by audio,   *)
(* with a browser that sends one request at a time and workers that always   *)
(* succeed.  The interview is at most MaxRequests requests from its end: the *)
(* first k questions have been answered and transcribed, the remaining ones  *)
(* are submitted, then the results are requested.                            *)

SessionAt(k) ==
  [sid |-> 1, info |-> 101, hasQ |-> TRUE, questions |-> Questions10,
   index |-> k,
   transcript |-> [i \in 1..k |-> [question |-> TW, answer |-> Processing]]]

InitEndToEnd ==
  /\ hist = <<>>
  /\ rb = RbIdle
  /\ nsess = 1
  /\ req = [r \in Slots |-> IdleReq]
  /\ queue = <<>>
  /\ worker = [w \in 1..max_workers |-> IdleWorker]
  /\ rows = <<>>
  /\ ScreeningDone
  /\ \E k \in (ReadyCount - MaxRequests + 1)..ReadyCount :
       /\ nreq = MaxRequests - (ReadyCount - k) - 1
       /\ jar = SessionAt(k)
       /\ acceptedBy = {[sid |-> 1, idx |-> i, audio |-> TRUE, k |-> 1] : i \in 0..(k - 1)}
       /\ store = [c \in Cands |-> IF c = 101 THEN Prefix(k) ELSE <<>>]
       /\ written = [c \in Cands |-> IF c = 101 THEN [i \in 1..k |-> i - 1] ELSE <<>>]

\* the browser follows the pages: the next request is sent when the response of the
\* last one has arrived, an answer while the interview page shows a question (lines
\* 232-246), the results when it has handed over to the processing page (line 236)
OpenNext(kind) ==
  /\ IdleSlots = Slots
  /\ IF kind = "results"
     THEN jar.index >= Len(jar.questions)
     ELSE jar.index < Len(jar.questions)
  /\ Open(kind, 0)

\* a step of a pool thread whose transcription succeeds
WorkerStep == \E w \in 1..max_workers : WorkerTake(w) \/ WorkerCheck(w, TW) \/ WorkerWrite(w)

\* a step of a request handler
HandlerStep ==
  \E r \in Slots :
    \/ SubmitAnswer(r, TW) \/ ResultsStart(r) \/ GatePoll(r) \/ ReadFinal(r)
    \/ \E resp \in ScoreResponses : Evaluate(r, resp)
    \/ \E insertOk \in BOOLEAN : Insert(r, insertOk)
    \/ Respond(r)

NextEndToEnd ==
  \/ OpenNext("submit_audio")
  \/ OpenNext("results")
  \/ \E r \in Slots : SubmitAnswer(r, TW)
  \/ \E r \in Slots : ResultsStart(r)
  \/ \E r \in Slots : GatePoll(r)
  \/ \E r \in Slots : ReadFinal(r)
  \/ \E r \in Slots, resp \in ScoreResponses : Evaluate(r, resp)
  \/ \E r \in Slots, insertOk \in BOOLEAN : Insert(r, insertOk)
  \/ \E r \in Slots : Respond(r)
  \/ \E w \in 1..max_workers : WorkerTake(w)
  \/ \E w \in 1..max_workers : WorkerCheck(w, TW)
  \/ \E w \in 1..max_workers : WorkerWrite(w)

\* the pool threads and the request handlers are scheduled fairly
SpecEndToEnd ==
  InitEndToEnd /\ [][NextEndToEnd]_vars /\ WF_vars(WorkerStep) /\ WF_vars(HandlerStep)

Running == {w \in 1..max_workers : worker[w].pc # "idle"}

TextStep(r) ==
  /\ req[r].kind = "submit_text"
  /\ req[r].pc = "handle"
  /\ req'[r].pc = "respond"

\* C14: Text answers enqueue nothing.  A submit_answer carrying a literal text
\* answer leaves the queue of the pool, its workers and the Transcript Store
\* unchanged; on a session with a current question it stores the question and the
\* literal answer in the session transcript at the current index and advances
\* currentIndex by one.
C14_TextEnqueuesNothing ==
  [][\A r \in Slots :
       TextStep(r) =>
         /\ queue' = queue /\ worker' = worker
         /\ store' = store /\ written' = written
         /\ LET s == req[r].sess
                t == req'[r].sess
            IN (s.hasQ /\ s.index < Len(s.questions)) =>
                 /\ t.index = s.index + 1
                 /\ t.transcript = Append(s.transcript, t.transcript[Len(t.transcript)])
                 /\ t.transcript[Len(t.transcript)].question = s.questions[s.index + 1]
                 /\ t.transcript[Len(t.transcript)].answer \in AnswerTexts
                 /\ t.transcript[Len(t.transcript)].answer # Processing
                 /\ Len(t.transcript) = t.index]_vars

\* a text answer was accepted while the tasks of earlier answers wait in the queue,
\* and no task exists for its question
C14_Witness ==
  \E r \in Slots :
    /\ req[r].kind = "submit_text" /\ req[r].pc = "respond" /\ req[r].outcome = "next"
    /\ req[r].sess.transcript[req[r].sess.index].answer \in AnswerTexts
    /\ queue # <<>> /\ Running = {}
    /\ \A i \in 1..Len(queue) : queue[i].idx < req[r].sess.index - 1

-----------------------------------------------------------------------------
(* The pages of the interview: the interview route, which issues the current *)
(* question, and the processing route, next to submissions that advance the  *)
(* session.  The browser holds no session, or a session of ten questions     *)
(* that is at most MaxRequests answers from its end.                         *)

\* interview, line 235
ExhaustedOffByOne(idx, total) == idx > total
Exhausted(idx, total) == idx >= total

\* an interview route that asks for new questions
InterviewRegenerates(r, ttsOk) ==
  /\ req[r].kind = "interview"
  /\ req[r].pc = "question"
  /\ req' = [req EXCEPT ![r].pc = "respond", ![r].outcome = "question",
                        ![r].modified = TRUE, ![r].sess.questions = <<TQ>>]
  /\ UNCHANGED <<jar, nreq, nsess, acceptedBy, storeVars, hist, rb, poolVars, rows, screenVars>>

\* interview, lines 228-246: redirect to the login, redirect to the processing page,
\* or the page of question idx; questions[idx] and text_to_speech may raise
Interview(r, ttsOk) ==
  /\ req[r].kind = "interview"
  /\ req[r].pc = "question"
  /\ LET s == req[r].sess
     IN req' = [req EXCEPT ![r] =
          IF ~s.hasQ
          THEN [@ EXCEPT !.pc = "respond", !.outcome = "login"]
          ELSE IF Exhausted(s.index, Len(s.questions))
          THEN [@ EXCEPT !.pc = "respond", !.outcome = "processing"]
          ELSE IF s.index + 1 \notin DOMAIN s.questions \/ ~ttsOk
          THEN [@ EXCEPT !.pc = "respond", !.outcome = "error500"]
          ELSE [@ EXCEPT !.pc = "respond", !.outcome = "question", !.issued = s.index]]
  /\ UNCHANGED <<jar, nreq, nsess, acceptedBy, storeVars, hist, rb, poolVars, rows, screenVars>>

\* processing, lines 250-254: back to the interview while a question is left
ProcessingPage(r) ==
  /\ req[r].kind = "processing"
  /\ req[r].pc = "page"
  /\ LET s == req[r].sess
     IN req' = [req EXCEPT ![r] =
          IF s.index < Len(s.questions)
          THEN [@ EXCEPT !.pc = "respond", !.outcome = "interview"]
          ELSE [@ EXCEPT !.pc = "respond", !.outcome = "processing.html"]]
  /\ UNCHANGED <<jar, nreq, nsess, acceptedBy, storeVars, hist, rb, poolVars, rows, screenVars>>

PageKinds == {"interview", "processing", "submit_text"}

InitPages ==
  /\ store = [c \in Cands |-> <<>>]
  /\ written = [c \in Cands |-> <<>>]
  /\ hist = <<>>
  /\ rb = RbIdle
  /\ req = [r \in Slots |-> IdleReq]
  /\ nreq = 0
  /\ queue = <<>>
  /\ worker = [w \in 1..max_workers |-> IdleWorker]
  /\ rows = <<>>
  /\ ScreeningDone
  /\ acceptedBy = {}
  /\ \/ jar = NoSession /\ nsess = 0
     \/ \E k \in (ReadyCount - MaxRequests)..ReadyCount : jar = SessionAt(k) /\ nsess = 1

NextPages ==
  \/ \E kind \in PageKinds : Open(kind, 0)
  \/ \E r \in Slots, ttsOk \in BOOLEAN : Interview(r, ttsOk)
  \/ \E r \in Slots : ProcessingPage(r)
  \/ \E r \in Slots : req[r].kind = "submit_text" /\ SubmitAnswer(r, TW)
  \/ \E r \in Slots : Respond(r)

SpecPages == InitPages /\ [][NextPages]_vars

\* the handler of the interview route runs in request r
InterviewStep(r) ==
  /\ req[r].kind = "interview"
  /\ req[r].pc = "question"
  /\ req'[r].pc = "respond"

\* C15: No question after exhaustion.  An interview request on a session with
\* currentIndex == len(questions) issues no question and redirects to the
\* processing page, which then shows the processing page and does not send back;
\* a question that is issued has the position currentIndex of the session the
\* request works on, and that position is below len(questions).
C15_NoQuestionAfterExhaustion ==
  /\ [](\A r \in Slots :
          /\ req[r].issued # -1 =>
               /\ req[r].kind = "interview" /\ req[r].outcome = "question"
               /\ req[r].issued = req[r].sess.index
               /\ req[r].issued >= 0 /\ req[r].issued < Len(req[r].sess.questions)
          /\ (req[r].kind = "processing" /\ req[r].pc = "respond"
                /\ req[r].sess.hasQ /\ req[r].sess.index = Len(req[r].sess.questions)) =>
               req[r].outcome = "processing.html")
  /\ [][\A r \in Slots :
          (InterviewStep(r) /\ req[r].sess.hasQ
             /\ req[r].sess.index = Len(req[r].sess.questions)) =>
            /\ req'[r].outcome = "processing"
            /\ req'[r].issued = -1
            /\ req'[r].sess = req[r].sess /\ ~req'[r].modified]_vars

\* the tenth answer was submitted and the interview request that follows is sent on
\* to the processing page
C15_Witness ==
  \E r \in Slots :
    /\ req[r].kind = "interview" /\ req[r].pc = "respond" /\ req[r].outcome = "processing"
    /\ req[r].sess.index = ReadyCount
    /\ \E a \in acceptedBy : a.idx = ReadyCount - 1

-----------------------------------------------------------------------------
(* The login with a question generator that returns lists of any length *)

\* the number of questions the prompt of generate_questions asks for
QuestionCount == 10

\* the lengths of the lists the model may return
GenLengths == {0, 1, QuestionCount - 1, QuestionCount, QuestionCount + 1}
GenAny == {GenRaises} \cup {GenReturns([i \in 1..n |-> TW]) : n \in GenLengths}

\* what may be typed into the login form: a shortlisted id, an id that is not
\* shortlisted, something that is not a number
LoginIdsAny == LoginIds \cup {102, NotNumeric}

NextLogin ==
  \/ \E cid \in LoginIdsAny : Open("login", cid)
  \/ \E r \in Slots, queryOk \in BOOLEAN : LoginCheck(r, queryOk)
  \/ \E r \in Slots, queryOk \in BOOLEAN, gen \in GenAny : LoginCreate(r, queryOk, gen)
  \/ \E r \in Slots : Respond(r)

SpecLogin == Init /\ [][NextLogin]_vars

\* C16: Exactly 10 questions or no session.  Every session that exists, in the
\* cookie or in a request, has exactly 10 questions.
C16_TenQuestionsOrNoSession ==
  \A s \in LiveSessions : s.hasQ => Len(s.questions) = QuestionCount

-----------------------------------------------------------------------------
(* The pool under load: a session of ten questions whose first answers have  *)
(* been submitted by audio and are still queued, further audio submissions,  *)
(* and pool threads that succeed or fail.                                    *)

InitPool ==
  /\ hist = <<>>
  /\ rb = RbIdle
  /\ nsess = 1
  /\ req = [r \in Slots |-> IdleReq]
  /\ worker = [w \in 1..max_workers |-> IdleWorker]
  /\ rows = <<>>
  /\ ScreeningDone
  /\ store = [c \in Cands |-> <<>>]
  /\ written = [c \in Cands |-> <<>>]
  /\ \E n \in 1..MaxPending :
       /\ nreq = MaxRequests - 2
       /\ jar = SessionAt(n)
       /\ acceptedBy = {[sid |-> 1, idx |-> i, audio |-> TRUE, k |-> 1] : i \in 0..(n - 1)}
       /\ queue = [i \in 1..n |-> [cid |-> 101, question |-> TW, idx |-> i - 1, sid |-> 1]]

\* a step of a pool thread
PoolStep ==
  \E w \in 1..max_workers :
    WorkerTake(w) \/ WorkerFails(w) \/ WorkerCheck(w, TW) \/ WorkerWrite(w)

NextPool ==
  \/ Open("submit_audio", 0)
  \/ \E r \in Slots : SubmitAnswer(r, TW)
  \/ \E r \in Slots : Respond(r)
  \/ \E w \in 1..max_workers : WorkerTake(w)
  \/ \E w \in 1..max_workers : WorkerFails(w)
  \/ \E w \in 1..max_workers : WorkerCheck(w, TW)
  \/ \E w \in 1..max_workers : WorkerWrite(w)

\* the pool threads are scheduled fairly
SpecPool == InitPool /\ [][NextPool]_vars /\ WF_vars(PoolStep)

\* the same with answers that are also submitted as text
NextPoolText ==
  \/ Open("submit_text", 0)
  \/ NextPool

SpecPoolText == InitPool /\ [][NextPoolText]_vars

\* the handler of submit_answer runs in request r, which carries an audio answer
AudioStep(r) ==
  /\ req[r].kind = "submit_audio"
  /\ req[r].pc = "handle"
  /\ req'[r].pc = "respond"
  /\ req'[r].outcome = "next"

\* C17: Bounded worker pool.  At most 3 tasks are executing at any time; an audio
\* submission appends its task to the queue, also while 3 are running, and its
\* handler ends in the same step without any worker having moved; a task leaves
\* the queue only from its head, into an idle worker that starts it; a queue that
\* is not empty is emptied by the workers.
C17_BoundedPool ==
  /\ [](Cardinality(Running) <= 3)
  /\ [][\A r \in Slots :
          AudioStep(r) =>
            /\ Len(queue') = Len(queue) + 1
            /\ queue' = Append(queue, queue'[Len(queue')])
            /\ queue'[Len(queue')].idx = req[r].sess.index
            /\ worker' = worker]_vars
  /\ [][queue' # queue =>
          \/ \E r \in Slots : AudioStep(r)
          \/ /\ queue # <<>> /\ queue' = Tail(queue)
             /\ \E w \in 1..max_workers :
                  /\ worker[w].pc = "idle"
                  /\ worker'[w] = [pc |-> "run", task |-> Head(queue), entry |-> <<>>]]_vars
  /\ (queue # <<>>) ~> (queue = <<>>)

\* three tasks are running and the task of a submission whose request has returned
\* waits in the queue
C17_Witness ==
  /\ Cardinality(Running) = 3
  /\ IdleSlots = Slots /\ nreq > MaxRequests - 2
  /\ queue # <<>> /\ queue[Len(queue)].idx = jar.index - 1

\* worker w ends its task without having written
FailStep(w) ==
  /\ worker[w].pc \in {"run", "write"}
  /\ worker'[w].pc = "idle"
  /\ store' = store

\* C18: Failed tasks are discarded, not requeued.  A task goes from the head of
\* the queue to one idle worker and is removed from the queue by that step; the
\* queue grows only by submissions; a worker whose task ends without a write
\* (failure of the read, the transcription or the write, or a duplicate) becomes
\* idle again, leaves the queue, the other workers and the store as they were, so
\* the task is not executed again and has put no entry into the store; the store
\* changes only by the append of a worker that reached its write.
C18_FailedDiscarded ==
  /\ [][\A w \in 1..max_workers :
          (worker'[w].pc = "run" /\ worker'[w] # worker[w]) =>
            /\ worker[w].pc = "idle" /\ queue # <<>>
            /\ worker'[w].task = Head(queue) /\ queue' = Tail(queue)
            /\ \A v \in 1..max_workers : v # w => worker'[v] = worker[v]]_vars
  /\ [][Len(queue') > Len(queue) => \E r \in Slots : AudioStep(r)]_vars
  /\ [][\A w \in 1..max_workers :
          FailStep(w) =>
            /\ worker'[w] = IdleWorker
            /\ queue' = queue /\ written' = written
            /\ \A v \in 1..max_workers : v # w => worker'[v] = worker[v]]_vars
  /\ [][store' # store =>
          \E w \in 1..max_workers :
            /\ worker[w].pc = "write" /\ worker'[w] = IdleWorker
            /\ store' = [store EXCEPT ![worker[w].task.cid] = @ \o worker[w].entry]]_vars

\* the task of question index 0 failed and was not run again: the pool has come to
\* rest, the store has the entry of index 1 and none for index 0
C18_Witness ==
  /\ PoolQuiet
  /\ Contains(store[101], Marker(1))
  /\ ~Contains(store[101], Marker(0))

-----------------------------------------------------------------------------
(* The backend calls of the interview: the transcription call of a worker    *)
(* and the scoring call of the evaluation, against a backend that answers    *)
(* the successive calls of one operation with a given list of outcomes.      *)

Success == [raised |-> FALSE, msg |-> <<>>]
Failure(msg) == [raised |-> TRUE, msg |-> msg]

\* what the backend answers to the first, second, ... call
Scripts ==
  { <<Success>>,
    <<Failure(M_RateLimit), Success>>,
    <<Failure(M_Invalid), Success>>,
    <<Failure(M_Quota), Failure(M_RateLimit), Success>>,
    [i \in 1..max_retries |-> Failure(M_RateLimit)] \o <<Success>> }

\* one complete run of process_audio_async: the one call of GEMINI.generate_content
\* of line 136 gets the first outcome; when it raises, the except clause of line
\* 162 ends the run
TranscribeRun(c, idx, outs) ==
  /\ Len(hist) < MaxCalls
  /\ LET first == outs[1]
         wr == ~first.raised /\ ShouldWrite(store[c], idx)
     IN /\ store' = [store EXCEPT ![c] = IF wr THEN @ \o QAEntry(idx, TW, TW) ELSE @]
        /\ written' = [written EXCEPT ![c] = IF wr THEN Append(@, idx) ELSE @]
        /\ hist' = Append(hist, [op |-> "transcribe", idx |-> idx, script |-> outs,
                                 calls |-> 1, failed |-> first.raised])
  /\ UNCHANGED <<rb, webVars, poolVars, rows, screenVars>>

\* one run of the evaluation of results (lines 332-345): the one call of
\* GEMINI.generate_content of line 194 gets the first outcome
ScoreRun(outs) ==
  /\ Len(hist) < MaxCalls
  /\ LET first == outs[1]
         resp == IF first.raised
                 THEN [kind |-> "throw", avgNum |-> FALSE, avg |-> 0, summary |-> <<>>]
                 ELSE [kind |-> "json", avgNum |-> TRUE, avg |-> 65, summary |-> TW]
     IN hist' = Append(hist, [op |-> "score", idx |-> 0, script |-> outs,
                              calls |-> 1, failed |-> EvalOutcome(resp).degraded])
  /\ UNCHANGED <<store, written, rb, webVars, poolVars, rows, screenVars>>

NextBackend ==
  \/ \E idx \in IdxSample, outs \in Scripts : TranscribeRun(101, idx, outs)
  \/ \E outs \in Scripts : ScoreRun(outs)

SpecBackend == InitStore /\ [][NextBackend]_vars

\* the number of calls retry_with_backoff makes against a backend that answers with
\* outs, from call k on: it stops at the first call that returns or fails with an
\* error not classified transient, and after max_retries calls
RECURSIVE BackoffCalls(_, _)
BackoffCalls(outs, k) ==
  IF k > max_retries THEN max_retries
  ELSE IF outs[k].raised /\ TransientResume(outs[k].msg) THEN BackoffCalls(outs, k + 1)
  ELSE k

\* C19: Backend calls in the interview pipeline go through the Backoff Executor.
\* Every transcription and every scoring makes the calls retry_with_backoff would
\* make: a call that fails with a transient error is repeated, up to 5 attempts,
\* and the task is discarded (the result degraded) only when the last of these
\* calls failed; one transient failure followed by a success yields the success.
C19_BackendCallsRetried ==
  \A k \in 1..Len(hist) :
    LET h == hist[k]
        n == BackoffCalls(h.script, 1)
    IN /\ h.calls = n
       /\ h.failed = h.script[n].raised

\* the Completion Gate of request r ran and ended without having seen the store ready
TimedOut(r) ==
  /\ req[r].kind = "results"
  /\ req[r].pc \in {"read", "evaluate", "insert", "respond"}
  /\ req[r].polls >= 1 /\ ~req[r].ready

\* C20: Timeout is not an error.  A results request whose gate timed out goes on:
\* it reads the store once, taking the entries present at that moment or the text
\* "Transcription incomplete." when the candidate has no file, evaluates, and
\* inserts a row with exactly that text; it never ends in an error.  What workers
\* append after the read changes neither the text of the request nor the rows.
C20_TimeoutNotAnError ==
  /\ [](\A r \in Slots :
          TimedOut(r) =>
            /\ req[r].polls = MaxPolls
            /\ req[r].outcome \in {"none", "result"}
            /\ req[r].pc = "respond" => req[r].outcome = "result")
  /\ [][\A r \in Slots :
          TimedOut(r) =>
            /\ (req[r].pc = "read" /\ req'[r] # req[r]) =>
                 /\ req'[r].pc = "evaluate"
                 /\ req'[r].final =
                      IF store[req[r].cid] = <<>> THEN Incomplete ELSE store[req[r].cid]
            /\ req[r].pc = "evaluate" =>
                 /\ req'[r].pc \in {"evaluate", "insert"}
                 /\ req'[r].final = req[r].final
            /\ req[r].pc = "insert" => req'[r].final = req[r].final
            /\ (req[r].pc = "insert" /\ req'[r] # req[r]) =>
                 /\ req'[r].pc = "respond" /\ req'[r].outcome = "result"
                 /\ rows' = IF req'[r].inserted
                            THEN Append(rows, [cid |-> req[r].cid,
                                               full_transcript |-> req[r].final,
                                               final_score |-> req[r].score,
                                               summarised_feedback |-> req[r].summary])
                            ELSE rows]_vars
  /\ [][store' # store => rows' = rows]_vars

\* the gate timed out with a partial transcript, the result was persisted, and a
\* worker has appended an entry since the read: the row holds the text read
C20_Witness ==
  \E r \in Slots :
    /\ TimedOut(r) /\ req[r].pc = "respond" /\ req[r].inserted
    /\ req[r].final # Incomplete /\ req[r].final # store[req[r].cid]
    /\ rows # <<>> /\ rows[Len(rows)].full_transcript = req[r].final

\* the store of candidate 101 has the entry of every question
AllEntries == \A idx \in 0..(ReadyCount - 1) : EntriesFor(101, idx) = 1

C21_NoRawException ==
  \A r \in Slots :
    req[r].kind \in {"login", "results"} => req[r].outcome # "error500"

-----------------------------------------------------------------------------
(* The life of a session: logins that create it, with two questions that    *)
(* differ, and submissions by audio and as text that advance it.            *)

TwoQuestions == <<TW, TQ>>

NextSession ==
  \/ \E kind \in {"login"} \cup SubmitKinds, cid \in LoginIds : Open(kind, cid)
  \/ \E r \in Slots, queryOk \in BOOLEAN : LoginCheck(r, queryOk)
  \/ \E r \in Slots, queryOk \in BOOLEAN, gen \in {GenRaises, GenReturns(TwoQuestions)} :
       LoginCreate(r, queryOk, gen)
  \/ \E r \in Slots, answer \in AnswerTexts : SubmitAnswer(r, answer)
  \/ \E r \in Slots : Respond(r)

SpecSession == Init /\ [][NextSession]_vars

\* C22: Session invariant.  In every session, in the cookie or in a request,
\* len(transcript) == currentIndex, currentIndex <= len(questions), and the i-th
\* transcript pair holds the i-th question.
C22_SessionInvariant ==
  \A s \in LiveSessions :
    /\ Len(s.transcript) = s.index
    /\ s.index <= Len(s.questions)
    /\ \A i \in 1..s.index : s.transcript[i].question = s.questions[i]

\* a session whose two different questions were answered, one by audio, one as text
C22_Witness ==
  /\ jar.index = 2 /\ Len(jar.transcript) = 2
  /\ jar.questions[1] # jar.questions[2]
  /\ jar.transcript[2].question = jar.questions[2]
  /\ {jar.transcript[1].answer, jar.transcript[2].answer} = {Processing, TW}

-----------------------------------------------------------------------------
(* All the routes of the application on one browser, without the pool: the  *)
(* tasks handed off stay in the queue.                                      *)

AllKinds == Kinds \cup {"interview", "processing"}

NextRoutes ==
  \/ \E kind \in AllKinds, cid \in LoginIds : Open(kind, cid)
  \/ \E r \in Slots, queryOk \in BOOLEAN : LoginCheck(r, queryOk)
  \/ \E r \in Slots, queryOk \in BOOLEAN, gen \in {GenRaises, GenReturns(TwoQuestions)} :
       LoginCreate(r, queryOk, gen)
  \/ \E r \in Slots, ttsOk \in BOOLEAN : Interview(r, ttsOk)
  \/ \E r \in Slots : ProcessingPage(r)
  \/ \E r \in Slots, answer \in AnswerTexts : SubmitAnswer(r, answer)
  \/ \E r \in Slots : ResultsStart(r)
  \/ \E r \in Slots : GatePoll(r)
  \/ \E r \in Slots : ReadFinal(r)
  \/ \E r \in Slots, resp \in ScoreResponses : Evaluate(r, resp)
  \/ \E r \in Slots, insertOk \in BOOLEAN : Insert(r, insertOk)
  \/ \E r \in Slots : Respond(r)

SpecRoutes == Init /\ [][NextRoutes]_vars

\* request r runs the step of login that creates the session
CreateStep(r) == req[r].kind = "login" /\ req[r].pc = "create"

\* C23: Questions are frozen.  All the copies of one session have the same
\* questions and the same candidate info; no step of an interview, processing,
\* submit_answer or results request changes the questions or the candidate info
\* of its session; a session is created, with its questions, only by the creating
\* step of a login, once for each session; the cookie only ever takes the session
\* of a request that responds.
C23_QuestionsFrozen ==
  /\ [](\A s, t \in LiveSessions :
          (s.sid = t.sid /\ s.hasQ /\ t.hasQ) =>
             s.questions = t.questions /\ s.info = t.info)
  /\ [][\A r \in Slots :
          (req[r].kind \in AllKinds \ {"login"} /\ req'[r].pc # "idle") =>
            /\ req'[r].sess.questions = req[r].sess.questions
            /\ req'[r].sess.info = req[r].sess.info
            /\ req'[r].sess.hasQ = req[r].sess.hasQ
            /\ req'[r].sess.sid = req[r].sess.sid]_vars
  /\ [][nsess' # nsess =>
          /\ nsess' = nsess + 1
          /\ \E r \in Slots :
               /\ CreateStep(r) /\ req'[r].sess.sid = nsess' /\ req'[r].sess.hasQ
               /\ \A s \in LiveSessions : s.sid # nsess']_vars
  /\ [][jar' # jar =>
          \E r \in Slots : req[r].pc = "respond" /\ req[r].modified /\ jar' = req[r].sess]_vars

\* a session went through the interview page, an answer and the results, with the
\* questions it was created with
C23_Witness ==
  \E r \in Slots :
    /\ req[r].kind = "results" /\ req[r].pc = "respond" /\ req[r].outcome = "result"
    /\ req[r].sess.questions = TwoQuestions /\ req[r].sess.index >= 1
    /\ jar.questions = TwoQuestions

-----------------------------------------------------------------------------
(* Two start requests for the same candidate in flight at once, no result     *)
(* row persisted; four more requests follow, an answer and the results of     *)
(* each session.  The warehouse answers every query.                          *)

RaceRequests == 4

InitRace ==
  /\ store = [c \in Cands |-> <<>>]
  /\ written = [c \in Cands |-> <<>>]
  /\ hist = <<>>
  /\ rb = RbIdle
  /\ jar = NoSession
  /\ req = [r \in Slots |-> [IdleReq EXCEPT !.kind = "login", !.pc = FirstPc("login"),
                                            !.sess = NoSession, !.cid = 101]]
  /\ nreq = MaxRequests - RaceRequests
  /\ nsess = 0
  /\ acceptedBy = {}
  /\ queue = <<>>
  /\ worker = [w \in 1..max_workers |-> IdleWorker]
  /\ rows = <<>>
  /\ ScreeningDone

NextRace ==
  \/ \E kind \in {"submit_text", "results"} : Open(kind, 0)
  \/ \E r \in Slots : LoginCheck(r, TRUE)
  \/ \E r \in Slots : LoginCreate(r, TRUE, GenReturns(Questions))
  \/ \E r \in Slots, answer \in AnswerTexts : SubmitAnswer(r, answer)
  \/ \E r \in Slots : ResultsStart(r)
  \/ \E r \in Slots : GatePoll(r)
  \/ \E r \in Slots : ReadFinal(r)
  \/ \E r \in Slots, resp \in ScoreResponses : Evaluate(r, resp)
  \/ \E r \in Slots, insertOk \in BOOLEAN : Insert(r, insertOk)
  \/ \E r \in Slots : Respond(r)

SpecRace == InitRace /\ [][NextRace]_vars

\* C24: Start race.  Each of the two concurrent logins passes the prior-result
\* check only while no result row of its candidate is persisted, and a row is
\* persisted only after a session was created; the witness is the
\* interleaving in which both logins pass, both sessions are created and each
\* reaches results and inserts a row for the same id.
C24_StartRace ==
  /\ \A r \in Slots :
       (req[r].kind = "login" /\ (req[r].pc = "create" \/ req[r].outcome = "Session")) =>
          ~req[r].sawResult
  /\ (rows # <<>>) => nsess >= 1

\* both sessions of the two logins have inserted their row
C24_Witness ==
  \E r1, r2 \in Slots :
    /\ r1 # r2
    /\ \A r \in {r1, r2} :
         /\ req[r].kind = "results" /\ req[r].pc = "respond"
         /\ req[r].inserted /\ req[r].cid = 101
    /\ req[r1].sess.sid # req[r2].sess.sid
    /\ RowsFor(101) = 2

-----------------------------------------------------------------------------
(* The screening batches.  process_all_resumes lists the resumes-all folder  *)
(* (the listing is in the order of the blob names), numbers the resumes by   *)
(* their position in the listing and appends its rows to the table of        *)
(* candidates (WRITE_APPEND).  A blob stands for one person's resume.        *)

\* a file is uploaded to the resumes-all folder
Upload(b) ==
  /\ b \notin bucket
  /\ bucket' = bucket \cup {b}
  /\ UNCHANGED <<candidates, storeVars, hist, rb, webVars, poolVars, rows>>

\* one run of process_all_resumes, on the whole folder or (resume_processing.py
\* only) on the blob names given; the load job may fail, which is logged
ProcessAllResumes(impl, names, outcome, loadOk) ==
  /\ names \ NotPdf # {}
  /\ impl = "uploaded_resume_processing" => names = bucket
  /\ candidates' = IF ~loadOk THEN candidates
                   ELSE IF impl = "resume_processing"
                        THEN candidates \cup ResumeRows(names, outcome)
                        ELSE candidates \cup UploadedRows(outcome)
  /\ UNCHANGED <<bucket, storeVars, hist, rb, webVars, poolVars, rows>>

NextScreening ==
  \/ \E b \in Blobs : Upload(b)
  \/ \E impl \in Impls, names \in SUBSET bucket, outcome \in [bucket -> ScreenOutcomes],
          loadOk \in BOOLEAN :
       ProcessAllResumes(impl, names, outcome, loadOk)

InitScreening ==
  /\ store = [c \in Cands |-> <<>>]
  /\ written = [c \in Cands |-> <<>>]
  /\ hist = <<>>
  /\ rb = RbIdle
  /\ jar = NoSession
  /\ req = [r \in Slots |-> IdleReq]
  /\ nreq = 0
  /\ nsess = 0
  /\ acceptedBy = {}
  /\ queue = <<>>
  /\ worker = [w \in 1..max_workers |-> IdleWorker]
  /\ rows = <<>>
  /\ ScreeningIdle

SpecScreening == InitScreening /\ [][NextScreening]_vars

\* C25: Candidate ids are unique.  No two rows of the table of candidates carry
\* the same candidate_id for two different resumes.
C25_CandidateIdsUnique ==
  \A x, y \in candidates :
    (x.candidate_id = y.candidate_id /\ x.resume # NoResume /\ y.resume # NoResume)
       => x.resume = y.resume

\* the message carries an exhaustion signal and none of the other keys
ExhaustionOnly(msg) ==
  /\ Contains(Lower(msg), K_exhaust)
  /\ \A key \in {K_resource, K_quota, K_rate, K_limit} : ~Contains(Lower(msg), key)

\* C26: Exhaustion signals are transient in every executor.  For every error a run
\* of retry_with_backoff met, the two implementations take the same decision, and
\* an error that carries only the exhaustion signal was retried: it was followed by
\* a sleep and did not end the run as the error propagated.
C26_SameDecision ==
  \A k \in 1..Len(rb.log) :
    rb.log[k] # Ok =>
      /\ \A i, j \in Impls : IsTransient(i, rb.log[k]) = IsTransient(j, rb.log[k])
      /\ ExhaustionOnly(rb.log[k]) => ~(rb.status = "raised" /\ rb.err = rb.log[k])

\* C27: Evaluation only after the interview is finished.  A results request is
\* in the Completion Gate, the evaluation or the insert, or has shown the result
\* page, only for a session whose index equals the number of its questions.
C27_ResultsOnlyWhenFinished ==
  \A r \in Slots :
    ( /\ req[r].kind = "results"
      /\ \/ req[r].pc \in {"poll", "read", "evaluate", "insert"}
         \/ req[r].outcome = "result" ) =>
       req[r].sess.index = Len(req[r].sess.questions)

-----------------------------------------------------------------------------
(* An interview answered entirely by text: login, the answers, results *)

NextTextOnly ==
  \/ \E kind \in {"login", "submit_text", "results"}, cid \in LoginIds : Open(kind, cid)
  \/ \E r \in Slots : LoginCheck(r, TRUE)
  \/ \E r \in Slots : LoginCreate(r, TRUE, GenReturns(TwoQuestions))
  \/ \E r \in Slots, answer \in AnswerTexts : SubmitAnswer(r, answer)
  \/ \E r \in Slots : ResultsStart(r)
  \/ \E r \in Slots : GatePoll(r)
  \/ \E r \in Slots : ReadFinal(r)
  \/ \E r \in Slots, resp \in ScoreResponses : Evaluate(r, resp)
  \/ \E r \in Slots, insertOk \in BOOLEAN : Insert(r, insertOk)
  \/ \E r \in Slots : Respond(r)

SpecTextOnly == Init /\ [][NextTextOnly]_vars

\* the results request r has read the text it scores, for a completed session
ScoresCompleted(r) ==
  /\ req[r].kind = "results"
  /\ req[r].pc \in {"evaluate", "insert"} \/ req[r].outcome = "result"
  /\ req[r].sess.hasQ
  /\ req[r].sess.index = Len(req[r].sess.questions)

\* C28: Every accepted answer reaches the evaluator.  For a completed session the
\* text that is scored and persisted contains every answer that was submitted as
\* text, and the Completion Gate of an interview answered entirely by text does
\* not run into its timeout on a missing store.
C28_AnswersReachEvaluator ==
  \A r \in Slots :
    ScoresCompleted(r) =>
      LET t == req[r].sess.transcript
      IN /\ \A i \in 1..Len(t) :
              t[i].answer # Processing => Contains(req[r].final, t[i].answer)
         /\ (\A i \in 1..Len(t) : t[i].answer # Processing) =>
              ~(req[r].polls = MaxPolls /\ ~req[r].ready /\ req[r].final = Incomplete)

\* C29: Prior-result check fails open.  When its query raises,
\* check_duplicate_interview reports that no result exists, also for an id that
\* has a result row; login answers AlreadyInterviewed only when it saw a row, and
\* a login whose check has passed goes on to the lookup and the creation of the
\* session whatever the table holds.
C29_CheckFailsOpen ==
  /\ [](\A c \in Cands : HasResult(c) => ~CheckDuplicate(c, FALSE))
  /\ [](\A r \in Slots : req[r].outcome = "AlreadyInterviewed" => req[r].sawResult)
  /\ [][\A r \in Slots :
          (req[r].pc = "check" /\ req'[r] # req[r] /\ req'[r].pc # "create") =>
             HasResult(req[r].cid) \/ ~IntParses(req[r].cid)]_vars

\* a session was created for a candidate whose result row was persisted when the
\* check ran
C29_Witness ==
  \E r \in Slots :
    /\ req[r].kind = "login" /\ req[r].outcome = "Session"
    /\ req[r].sawResult /\ HasResult(req[r].cid)
    /\ req[r].sess.info = req[r].cid

-----------------------------------------------------------------------------
(* Logins and spoken answers on one browser, with the pool running *)

NextRestart ==
  \/ \E kind \in {"login", "submit_audio"}, cid \in LoginIds : Open(kind, cid)
  \/ \E r \in Slots : LoginCheck(r, TRUE)
  \/ \E r \in Slots : LoginCreate(r, TRUE, GenReturns(Questions))
  \/ \E r \in Slots, answer \in AnswerTexts : SubmitAnswer(r, answer)
  \/ \E r \in Slots : Respond(r)
  \/ \E w \in 1..max_workers : WorkerTake(w)
  \/ \E w \in 1..max_workers : WorkerFails(w)
  \/ \E w \in 1..max_workers, raw \in RawTexts : WorkerCheck(w, raw)
  \/ \E w \in 1..max_workers : WorkerWrite(w)

SpecRestart == Init /\ [][NextRestart]_vars

\* C30: Fresh store per session.  Whenever login creates a session for a
\* candidate, the Transcript Store holds no entry of that candidate.
C30_FreshStorePerSession ==
  [][\A r \in Slots :
       (CreateStep(r) /\ req'[r].outcome = "Session") =>
          ~FileExists(store[req'[r].sess.info])]_vars

-----------------------------------------------------------------------------
(* Logins with the ids of the first batch and an id no batch assigned *)

AdmissionIds == {100, 101, 102}

NextAdmission ==
  \/ \E cid \in AdmissionIds : Open("login", cid)
  \/ \E r \in Slots, queryOk \in BOOLEAN : LoginCheck(r, queryOk)
  \/ \E r \in Slots, queryOk \in BOOLEAN, gen \in GenOutcomes : LoginCreate(r, queryOk, gen)
  \/ \E r \in Slots : Respond(r)

SpecAdmission == Init /\ [][NextAdmission]_vars

\* the rows of candidate cid that the screening marked shortlisted
ShortlistedRows(cid) == {x \in CandidateRows(cid) : x.shortlisted = "YES"}

\* C31: Only shortlisted candidates can start an interview.  A login ends with a
\* session only for an id that has a row marked shortlisted "YES"; an id recorded
\* only with "NO" gets no session.
C31_OnlyShortlistedStart ==
  \A r \in Slots :
    (req[r].kind = "login" /\ req[r].outcome = "Session") =>
       ShortlistedRows(req[r].cid) # {}

====
